---- MODULE Spec2Model ----
(***************************************************************************)
(* Paper Planes PM tool: the project-creation wizard (src/app.py), the     *)
(* registry import (src/api/excel_import.py), the document generator       *)
(* (src/api/project_generator.py), the Google Drive client                 *)
(* (src/api/google_drive_client.py) and the relational store               *)
(* (src/database/models.py, src/database/connection.py).                   *)
(*                                                                         *)
(* Conventions.                                                            *)
(*  - A Python dict is a function whose DOMAIN is the set of present keys. *)
(*  - An optional value (None or a value) is a sequence of length 0 or 1.  *)
(*  - Cyrillic literals of the source are transliterated to ASCII.         *)
(*  - A date is a day number.                                              *)
(*  - A table of the store is a set of rows; a new row gets id max+1       *)
(*    (SQLite INTEGER PRIMARY KEY).                                        *)
(***************************************************************************)
EXTENDS Integers, Sequences, FiniteSets, TLC

(***************************************************************************)
(* Bounds of the model.                                                    *)
(***************************************************************************)
MaxProjects == 2

MaxDependencies == 1

MaxDriveProjects == 2

(***************************************************************************)
(* Generic helpers.                                                        *)
(***************************************************************************)
EmptyDict == [k \in {} |-> 0]

None == <<>>

Some(v) == <<v>>

Range(s) == {s[i] : i \in DOMAIN s}

MaxOf(S) == IF S = {} THEN 0 ELSE CHOOSE m \in S : \A n \in S : n <= m

NextId(table) == MaxOf({r.id : r \in table}) + 1

(***************************************************************************)
(* Project codes.  A code is a string; split(".") is a table over the      *)
(* codes the model uses.                                                   *)
(***************************************************************************)
SplitDot(code) ==
    CASE code = "2168.ACM.acme" -> <<"2168", "ACM", "acme">>
      [] code = "2169.Zet.zeta" -> <<"2169", "Zet", "zeta">>
      [] code = "2170acme"      -> <<"2170acme">>
      [] OTHER                  -> <<code>>

\* The first part of the code taken for the second.
Ticker_first(code) == IF Len(SplitDot(code)) > 1 THEN SplitDot(code)[1] ELSE "XXX"

\* project_code.split(".")[1] if "." in project_code else "XXX"
Ticker(code) == IF Len(SplitDot(code)) > 1 THEN SplitDot(code)[2] ELSE "XXX"

\* str.upper() and str.lower() on the codes the model uses.
Upper(code) ==
    CASE code = "2168.ACM.acme" -> "2168.ACM.ACME"
      [] code = "2169.Zet.zeta" -> "2169.ZET.ZETA"
      [] code = "2170acme"      -> "2170ACME"
      [] OTHER                  -> code

Lower(code) ==
    CASE code = "2168.ACM.acme" -> "2168.acm.acme"
      [] code = "2169.Zet.zeta" -> "2169.zet.zeta"
      [] code = "2170acme"      -> "2170acme"
      [] OTHER                  -> code

(***************************************************************************)
(* Methodology catalog (database/init_data.py): 11 BPM + 25 BPA codes.     *)
(* A code is <<category, n>>; the label of the multiselect is              *)
(* "<code>: <name>", identified here with its code.                        *)
(***************************************************************************)
NumBPM == 11

NumBPA == 25

MethodologyCatalog ==
    {<<"BPM", n>> : n \in 1..NumBPM} \cup {<<"BPA", n>> : n \in 1..NumBPA}

\* Python `code in label`: the code string is a substring of the label
\* "<cat><m>: <name>", i.e. same category and the digits of n are a prefix
\* of the digits of m.
CodeInLabel(code, label) ==
    /\ code[1] = label[1]
    /\ \/ code[2] = label[2]
       \/ (label[2] >= 10 /\ code[2] = label[2] \div 10)

(***************************************************************************)
(* SETUP_CHECKLIST_ITEMS (database/models.py): item_number and title.      *)
(***************************************************************************)
SETUP_CHECKLIST_ITEMS ==
    << [item_number |-> 1,  title |-> "Sozdanie chata s klientom i predstavlenie komandy"],
       [item_number |-> 2,  title |-> "Vybor menedzhera proekta"],
       [item_number |-> 3,  title |-> "Poluchenie i obrabotka orgstruktury"],
       [item_number |-> 4,  title |-> "Otpravit zapros startovyh materialov"],
       [item_number |-> 5,  title |-> "Soglasovat datu otkryvayushchey sessii"],
       [item_number |-> 6,  title |-> "Sozdanie Miro proekta"],
       [item_number |-> 7,  title |-> "Dobavit proekt v fintablicu"],
       [item_number |-> 8,  title |-> "Dobavit proekt v tablicu Proizvodstva po dengam"],
       [item_number |-> 9,  title |-> "Dobavit proekt v bord iniciirovaniya v Kaiten"],
       [item_number |-> 10, title |-> "Sozdan vnutrenniy chat proekta v Telegram"] >>

(***************************************************************************)
(* State.                                                                  *)
(***************************************************************************)
VARIABLES
    projects,               \* table projects
    documents,              \* table project_documents
    payment_stages,         \* table payment_stages
    deliverables,           \* table deliverables
    task_dependencies,      \* table task_dependencies
    methodology_selections, \* table methodology_selections
    checklist_items,        \* table setup_checklist_items
    methodologies,          \* table methodologies
    create_step,            \* st.session_state.create_step
    project_data,           \* st.session_state.project_data
    extracted_data,         \* st.session_state.extracted_data
    planning_data,          \* st.session_state.planning_data
    drive_folders,          \* folders of the remote store
    drive_files,            \* files uploaded to the remote store
    local_files,            \* files written to the vault or a temp directory
    create_result,          \* what the last press of "Create project" did
    import_stats            \* stats returned by the last registry import

store == <<projects, documents, payment_stages, deliverables,
           task_dependencies, methodology_selections, checklist_items,
           methodologies>>

session == <<create_step, project_data, extracted_data, planning_data>>

outside == <<drive_folders, drive_files, local_files>>

vars == <<store, session, outside, create_result, import_stats>>

NoCreateResult ==
    [outcome |-> "none", code |-> "", events |-> <<>>, result |-> None,
     warnings |-> {}]

NoImportStats ==
    [total_rows |-> 0, imported |-> 0, skipped |-> 0, errors |-> <<>>,
     projects |-> <<>>, dry_run |-> FALSE]

\* BPM_METHODOLOGIES: code and category of each entry.
BPM_METHODOLOGIES == [n \in 1..NumBPM |-> [code |-> <<"BPM", n>>, category |-> "BPM"]]

\* The list without its last entry.
BPA_METHODOLOGIES_short ==
    [n \in 1..(NumBPA - 1) |-> [code |-> <<"BPA", n>>, category |-> "BPA"]]

\* BPA_METHODOLOGIES: code and category of each entry.
BPA_METHODOLOGIES == [n \in 1..NumBPA |-> [code |-> <<"BPA", n>>, category |-> "BPA"]]

\* The rows db.add-ed by import_methodologies, BPM first, with the ids the
\* empty table gives them.
AddedMethodologies ==
    LET all == BPM_METHODOLOGIES \o BPA_METHODOLOGIES
    IN  {[id |-> k, code |-> all[k].code, category |-> all[k].category] : k \in DOMAIN all}

\* db.commit() of rows into an empty table: Methodology.code is unique, a
\* repeated code raises and the except branch rolls everything back.
CommitMethodologies(rows) ==
    IF \E a, b \in rows : a # b /\ a.code = b.code THEN {} ELSE rows

\* init_db(): the tables exist and are empty, no page has been shown.
init_db ==
    /\ projects = {}
    /\ documents = {}
    /\ payment_stages = {}
    /\ deliverables = {}
    /\ task_dependencies = {}
    /\ methodology_selections = {}
    /\ checklist_items = {}
    /\ create_step = 1
    /\ project_data = EmptyDict
    /\ extracted_data = None
    /\ planning_data = EmptyDict
    /\ drive_folders = {}
    /\ drive_files = {}
    /\ local_files = {}
    /\ create_result = NoCreateResult
    /\ import_stats = NoImportStats

\* import_methodologies(): skipped when the table has rows.
import_methodologies ==
    /\ LET existing_count == Cardinality(methodologies)
       IN  IF existing_count > 0
           THEN UNCHANGED methodologies
           ELSE methodologies' = CommitMethodologies(AddedMethodologies)
    /\ UNCHANGED <<projects, documents, payment_stages, deliverables,
                   task_dependencies, methodology_selections, checklist_items>>
    /\ UNCHANGED <<session, outside, create_result, import_stats>>

\* initialize_database() has run before any page is shown: the catalog read
\* by the pages is MethodologyCatalog.
Init ==
    /\ init_db
    /\ methodologies = CommitMethodologies(AddedMethodologies)

\* A new database before initialize_database() has imported the catalog.
InitSeed ==
    /\ init_db
    /\ methodologies = {}

(***************************************************************************)
(* Wizard step 1 (show_step1_basic_info).                                  *)
(***************************************************************************)
\* The row db.query(Project).order_by(Project.id.desc()).first()
LastProject ==
    IF projects = {} THEN None
    ELSE Some(CHOOSE p \in projects : \A q \in projects : q.id <= p.id)

LastCode ==
    IF LastProject = None THEN "2167"
    ELSE SplitDot(LastProject[1].project_code)[1]

\* Button "generate project code": the collaborator answers with `code`,
\* or fails (ok = FALSE).
GenerateProjectCode(client_name, ok, code) ==
    /\ create_step = 1
    /\ client_name # ""
    /\ IF ok
       THEN project_data' = ("project_code" :> code) @@ project_data
       ELSE UNCHANGED project_data
    /\ UNCHANGED <<create_step, extracted_data, planning_data>>
    /\ UNCHANGED <<store, outside, create_result, import_stats>>

Step1Next_anydates(project_name, client_name, start_date, end_date, group, project_type) ==
    /\ create_step = 1
    /\ IF \/ project_name = "" \/ client_name = ""
          \/ "project_code" \notin DOMAIN project_data
       THEN UNCHANGED session
       ELSE /\ project_data' =
                  [k \in {"name", "client", "start_date", "end_date", "group", "project_type"} |->
                      CASE k = "name" -> project_name
                        [] k = "client" -> client_name
                        [] k = "start_date" -> start_date
                        [] k = "end_date" -> end_date
                        [] k = "group" -> group
                        [] k = "project_type" -> project_type] @@ project_data
            /\ create_step' = 2
            /\ UNCHANGED <<extracted_data, planning_data>>
    /\ UNCHANGED <<store, outside, create_result, import_stats>>

\* Button "next" of step 1; an invalid form returns early.
Step1Next(project_name, client_name, start_date, end_date, group, project_type) ==
    /\ create_step = 1
    /\ IF \/ project_name = "" \/ client_name = ""
          \/ end_date < start_date
          \/ "project_code" \notin DOMAIN project_data
       THEN UNCHANGED session
       ELSE /\ project_data' =
                  [k \in {"name", "client", "start_date", "end_date", "group", "project_type"} |->
                      CASE k = "name" -> project_name
                        [] k = "client" -> client_name
                        [] k = "start_date" -> start_date
                        [] k = "end_date" -> end_date
                        [] k = "group" -> group
                        [] k = "project_type" -> project_type] @@ project_data
            /\ create_step' = 2
            /\ UNCHANGED <<extracted_data, planning_data>>
    /\ UNCHANGED <<store, outside, create_result, import_stats>>

(***************************************************************************)
(* Wizard step 3 rendering (show_step3_planning): planning_data gets an    *)
(* entry for every deliverable that has none yet.                          *)
(***************************************************************************)
Truthy(ed) == ed # None /\ ed[1].keys # {}

HasDeliverables(ed) == ed # None /\ "deliverables" \in ed[1].keys

Preselected(deliv) ==
    {label \in MethodologyCatalog :
        \E code \in Range(deliv.suggested_methodologies) : CodeInLabel(code, label)}

\* st.selectbox(options=range(n + 1), index=predecessor_idx) raises when the
\* index is not an option; the script run stops there.
FirstBadDependency(deps, n) ==
    IF \E j \in DOMAIN deps : deps[j].predecessor_idx > n
    THEN CHOOSE j \in DOMAIN deps :
            /\ deps[j].predecessor_idx > n
            /\ \A k \in 1..(j - 1) : deps[k].predecessor_idx <= n
    ELSE Len(deps) + 1

\* The first deliverable whose controls raise, or n when every one renders.
FirstBroken(pd, n) ==
    LET bad == {i \in 0..(n - 1) :
                   i \in DOMAIN pd /\ FirstBadDependency(pd[i].dependencies, n) <= Len(pd[i].dependencies)}
    IN  IF bad = {} THEN n ELSE CHOOSE i \in bad : \A k \in bad : i <= k

RenderStep3(pd, ed) ==
    IF ~(Truthy(ed) /\ HasDeliverables(ed)) THEN pd
    ELSE LET delivs == ed[1].deliverables
             n == Len(delivs)
             fresh == {i \in 0..(n - 1) : i \notin DOMAIN pd /\ i <= FirstBroken(pd, n)}
         IN  [i \in fresh |->
                 [methodologies |-> Preselected(delivs[i + 1]),
                  dependencies |-> <<>>]] @@ pd

\* The session state after a rerun that lands on `step`.
Rerun(step, pd, ed) == IF step = 3 THEN RenderStep3(pd, ed) ELSE pd

(***************************************************************************)
(* Wizard step 2 (show_step2_contract_upload).                             *)
(***************************************************************************)
ExtractContractData_clears(contract_text_input, ok, payload) ==
    /\ create_step = 2
    /\ contract_text_input # ""
    /\ IF ok
       THEN /\ extracted_data' = Some(payload)
            /\ project_data' =
                  ("contract_text" :> contract_text_input) @@ project_data
       ELSE /\ extracted_data' = None
            /\ UNCHANGED project_data
    /\ UNCHANGED <<create_step, planning_data>>
    /\ UNCHANGED <<store, outside, create_result, import_stats>>

\* Button "extract with AI": the collaborator answers with `payload`
\* (json.loads of its text, not validated), or fails (ok = FALSE).
ExtractContractData(contract_text_input, ok, payload) ==
    /\ create_step = 2
    /\ contract_text_input # ""
    /\ IF ok
       THEN /\ extracted_data' = Some(payload)
            /\ project_data' =
                  ("contract_text" :> contract_text_input) @@ project_data
       ELSE UNCHANGED <<extracted_data, project_data>>
    /\ UNCHANGED <<create_step, planning_data>>
    /\ UNCHANGED <<store, outside, create_result, import_stats>>

\* Button "back" of step 2 (both branches).
Step2Back ==
    /\ create_step = 2
    /\ create_step' = 1
    /\ UNCHANGED <<project_data, extracted_data, planning_data>>
    /\ UNCHANGED <<store, outside, create_result, import_stats>>

\* Button "next" (extracted data shown) or "skip" (no extracted data).
Step2Next ==
    /\ create_step = 2
    /\ create_step' = 3
    /\ planning_data' = Rerun(3, planning_data, extracted_data)
    /\ UNCHANGED <<project_data, extracted_data>>
    /\ UNCHANGED <<store, outside, create_result, import_stats>>

(***************************************************************************)
(* Wizard step 3 (show_step3_planning).                                    *)
(***************************************************************************)
Step3Shown == create_step = 3 /\ Truthy(extracted_data) /\ HasDeliverables(extracted_data)

NumDeliverables == Len(extracted_data[1].deliverables)

\* Deliverable i is rendered up to and including its multiselect.
Rendered(i) ==
    /\ i \in 0..(NumDeliverables - 1)
    /\ i <= FirstBroken(planning_data, NumDeliverables)

\* Dependency j of deliverable i is rendered with its controls.
RenderedDependency(i, j) ==
    /\ Rendered(i)
    /\ j \in DOMAIN planning_data[i].dependencies
    /\ j < FirstBadDependency(planning_data[i].dependencies, NumDeliverables)

\* Everything below the dependencies of deliverable i is rendered.
RenderedBelow(i) ==
    /\ Rendered(i)
    /\ i < FirstBroken(planning_data, NumDeliverables)

\* The navigation buttons at the bottom of step 3 are rendered.
Step3Complete ==
    /\ Step3Shown
    /\ FirstBroken(planning_data, NumDeliverables) = NumDeliverables

SetDependencies(i, deps) ==
    planning_data' = [planning_data EXCEPT ![i].dependencies = deps]

\* Button "add dependency" of deliverable i.
AddDependency(i) ==
    /\ Step3Shown
    /\ RenderedBelow(i)
    /\ Len(planning_data[i].dependencies) < MaxDependencies
    /\ SetDependencies(i, Append(planning_data[i].dependencies,
                                 [predecessor_idx |-> 0, dependency_type |-> "FS"]))
    /\ UNCHANGED <<create_step, project_data, extracted_data>>
    /\ UNCHANGED <<store, outside, create_result, import_stats>>

\* Selectbox "predecessor" of dependency j of deliverable i: any option
\* 0..len(deliverables), 0 being "no dependency".
SelectPredecessor(i, j, pred_idx) ==
    /\ Step3Shown
    /\ RenderedDependency(i, j)
    /\ pred_idx \in 0..NumDeliverables
    /\ SetDependencies(i, [planning_data[i].dependencies EXCEPT ![j].predecessor_idx = pred_idx])
    /\ UNCHANGED <<create_step, project_data, extracted_data>>
    /\ UNCHANGED <<store, outside, create_result, import_stats>>

\* Selectbox "dependency type", shown only when a predecessor is chosen.
SelectDependencyType(i, j, dep_type) ==
    /\ Step3Shown
    /\ RenderedDependency(i, j)
    /\ planning_data[i].dependencies[j].predecessor_idx > 0
    /\ dep_type \in {"FS", "SS", "FF", "SF"}
    /\ SetDependencies(i, [planning_data[i].dependencies EXCEPT ![j].dependency_type = dep_type])
    /\ UNCHANGED <<create_step, project_data, extracted_data>>
    /\ UNCHANGED <<store, outside, create_result, import_stats>>

\* Button "delete dependency": dependencies.pop(dep_idx).
DeleteDependency(i, j) ==
    /\ Step3Shown
    /\ RenderedDependency(i, j)
    /\ LET deps == planning_data[i].dependencies
       IN  SetDependencies(i, SubSeq(deps, 1, j - 1) \o SubSeq(deps, j + 1, Len(deps)))
    /\ UNCHANGED <<create_step, project_data, extracted_data>>
    /\ UNCHANGED <<store, outside, create_result, import_stats>>

\* Multiselect of methodologies of deliverable i.
SelectMethodologies(i, labels) ==
    /\ Step3Shown
    /\ Rendered(i)
    /\ labels \subseteq MethodologyCatalog
    /\ planning_data' = [planning_data EXCEPT ![i].methodologies = labels]
    /\ UNCHANGED <<create_step, project_data, extracted_data>>
    /\ UNCHANGED <<store, outside, create_result, import_stats>>

\* Button "back" of step 3: always rendered without deliverables, and at the
\* bottom of the page with them.
Step3Back ==
    /\ create_step = 3
    /\ Step3Shown => Step3Complete
    /\ create_step' = 2
    /\ UNCHANGED <<project_data, extracted_data, planning_data>>
    /\ UNCHANGED <<store, outside, create_result, import_stats>>

\* Button "next" of step 3 (rendered only with deliverables).
Step3Next ==
    /\ Step3Complete
    /\ create_step' = 4
    /\ UNCHANGED <<project_data, extracted_data, planning_data>>
    /\ UNCHANGED <<store, outside, create_result, import_stats>>

\* Button "back" of step 4.
Step4Back ==
    /\ create_step = 4
    /\ create_step' = 3
    /\ planning_data' = Rerun(3, planning_data, extracted_data)
    /\ UNCHANGED <<project_data, extracted_data>>
    /\ UNCHANGED <<store, outside, create_result, import_stats>>

(***************************************************************************)
(* Remote store (GoogleDriveClient).  A folder is [id, name, parent]; a    *)
(* name is a tuple of strings standing for their concatenation; parent 0   *)
(* is the drive root.                                                      *)
(***************************************************************************)
\* find_folder_by_name: items[0] of the non-trashed folders of that name
\* under that parent, or None.
find_folder_by_name(folders, folder_name, parent_id) ==
    LET items == {f \in folders : f.name = folder_name /\ f.parent = parent_id}
    IN  IF items = {} THEN None
        ELSE Some((CHOOSE f \in items : \A g \in items : f.id <= g.id).id)

\* create_folder: always a new folder, whatever exists.
create_folder(folders, folder_name, parent_id) ==
    [id |-> NextId(folders), name |-> folder_name, parent |-> parent_id]

\* A lookup that never finds the folder.
get_or_create_folder_always(folders, folder_name, parent_id) ==
    LET f == create_folder(folders, folder_name, parent_id)
    IN  <<f.id, folders \cup {f}>>

\* get_or_create_folder: <<folder id, folders afterwards>>.
get_or_create_folder(folders, folder_name, parent_id) ==
    LET found == find_folder_by_name(folders, folder_name, parent_id)
    IN  IF found # None THEN <<found[1], folders>>
        ELSE LET f == create_folder(folders, folder_name, parent_id)
             IN  <<f.id, folders \cup {f}>>

SubfolderSuffixes ==
    <<".01-inbox", ".02-research", ".03-meetings", ".04-project-docs", ".05-deliverables">>

NumStructureSteps == 8

\* create_project_folder_structure from the project folder on: group is
\* <<id of the group folder, folders so far>>.
ProjectFolderStructure(group, project_code, project_name, steps) ==
    LET ticker == Ticker(project_code)
        project_folder == create_folder(group[2], <<Upper(project_code), " ", project_name>>, group[1])
        nsub == IF steps - 3 > 0 THEN steps - 3 ELSE 0
        subs == {[id |-> project_folder.id + k,
                  name |-> <<ticker, SubfolderSuffixes[k]>>,
                  parent |-> project_folder.id] : k \in 1..nsub}
    IN  [folders |-> (IF steps >= 3 THEN group[2] \cup {project_folder} ELSE group[2]) \cup subs,
         project_folder |-> project_folder,
         done |-> steps >= NumStructureSteps]

\* create_project_folder_structure from the group folder on: root is
\* <<id of the root folder, folders so far>>.
GroupFolderStructure(root, project_code, project_name, group, steps) ==
    ProjectFolderStructure(
        IF steps >= 2
        THEN get_or_create_folder(
                root[2],
                IF group = "right" THEN <<"Pravaya gruppa">> ELSE <<"Levaya gruppa">>,
                root[1])
        ELSE <<0, root[2]>>,
        project_code, project_name, steps)

\* create_project_folder_structure, of which the first `steps` remote
\* operations succeed (root, group, project folder, five subfolders) and the
\* next one raises: [folders, project_folder, done].
create_project_folder_structure(folders, project_code, project_name, group, steps) ==
    GroupFolderStructure(
        IF steps >= 1 THEN get_or_create_folder(folders, <<"04-Engagement">>, 0)
        ELSE <<0, folders>>,
        project_code, project_name, group, steps)

\* The project folders of the remote store.
DriveProjectFolders(folders) == {f \in folders : Len(f.name) = 3}

\* A call of GoogleDriveClient.get_or_create_folder on the remote store.
GetOrCreateFolder(folder_name, parent_id) ==
    /\ parent_id = 0 \/ \E f \in drive_folders : f.id = parent_id
    /\ drive_folders' = get_or_create_folder(drive_folders, folder_name, parent_id)[2]
    /\ UNCHANGED <<store, session, drive_files, local_files, create_result, import_stats>>

\* A call of GoogleDriveClient.create_project_folder_structure on the remote
\* store, of which the first `steps` remote operations succeed.
CreateProjectFolderStructure(project_code, project_name, group, steps) ==
    /\ \E made \in {create_project_folder_structure(
                        drive_folders, project_code, project_name, group, steps)} :
          /\ Cardinality(DriveProjectFolders(made.folders)) <= MaxDriveProjects
          /\ drive_folders' = made.folders
    /\ UNCHANGED <<store, session, drive_files, local_files, create_result, import_stats>>

UploadOrder == <<"adminscale", "readme", "pert", "contract">>

\* upload_project_files, of which the first `steps` uploads succeed:
\* adminscale and README to the project folder, PERT to 04-project-docs, the
\* contract to 01-inbox.
upload_project_files(files_created, project_folder, steps) ==
    LET todo == SelectSeq(UploadOrder, LAMBDA k : k \in files_created)
        n == IF steps < Len(todo) THEN steps ELSE Len(todo)
    IN  [uploaded |-> {[kind |-> todo[i],
                        parent |-> CASE todo[i] = "pert" -> project_folder.id + 4
                                     [] todo[i] = "contract" -> project_folder.id + 1
                                     [] OTHER -> project_folder.id] : i \in 1..n},
         done |-> steps >= Len(todo)]

(***************************************************************************)
(* Document generator (ProjectGenerator).                                  *)
(***************************************************************************)
\* save_project_files into `root`: the kinds of files written.  In a
\* directory without the <ticker>.04-project-docs subfolder the PERT write
\* raises FileNotFoundError after the adminscale file is written.
save_project_files(has_subfolders, project_data_) ==
    IF has_subfolders
    THEN [raised |-> FALSE,
          files |-> {"adminscale", "pert", "readme"}
                    \cup (IF "contract_text" \in DOMAIN project_data_ THEN {"contract"} ELSE {})]
    ELSE [raised |-> TRUE, files |-> {"adminscale"}]

\* Step 4 of create_project_with_gdrive_sync, the sync to the remote store,
\* and the result returned.
SyncToDrive(data, google_drive_client, files_created, structure, upload) ==
    LET code == data["project_code"]
        synced == structure.done /\ upload.done
    IN  [events |-> <<"generate_adminscale", "generate_pert",
                      "create_project_structure", "save_project_files">>
                    \o (IF google_drive_client
                        THEN <<"create_project_folder_structure">>
                             \o (IF structure.done THEN <<"upload_project_files">> ELSE <<>>)
                        ELSE <<>>),
         result |-> Some([obsidian_path |-> Some(Lower(code)),
                          files |-> files_created,
                          google_drive |-> IF google_drive_client /\ synced
                                           THEN Some(structure.project_folder.id)
                                           ELSE None,
                          google_drive_error |-> google_drive_client /\ ~synced]),
         local |-> {[root |-> "vault", folder |-> Lower(code), kind |-> k] : k \in files_created},
         folders |-> IF google_drive_client THEN structure.folders ELSE drive_folders,
         uploads |-> IF google_drive_client /\ structure.done
                     THEN upload.uploaded
                     ELSE {}]

\* The remote calls of step 4 in order: the folder structure, then the uploads.
UploadToDrive(data, google_drive_client, files_created, structure, upload_steps) ==
    SyncToDrive(data, google_drive_client, files_created, structure,
                upload_project_files(files_created, structure.project_folder, upload_steps))

\* create_project_with_gdrive_sync.  env.claude names the generation call
\* that fails ("ok" for none), env.vault tells whether the vault root is
\* writable, env.drive_steps and env.upload_steps how many remote calls succeed.
\* Returns the events in call order, the result dict (None when the function
\* raises) and the files and folders it leaves behind.
create_project_with_gdrive_sync(data, google_drive_client, env) ==
    LET nothing == [events |-> <<>>, result |-> None, local |-> {},
                    folders |-> drive_folders, uploads |-> {}]
    IN  IF env.claude = "adminscale"
        THEN [nothing EXCEPT !.events = <<"generate_adminscale">>]
        ELSE IF env.claude = "pert"
        THEN [nothing EXCEPT !.events = <<"generate_adminscale", "generate_pert">>]
        ELSE IF ~env.vault
        THEN [nothing EXCEPT
                !.events = <<"generate_adminscale", "generate_pert",
                             "create_project_structure", "save_temp_files">>,
                !.local = {[root |-> "temp", folder |-> Ticker(data["project_code"]), kind |-> k] :
                              k \in save_project_files(FALSE, data).files}]
        ELSE UploadToDrive(
                data, google_drive_client, save_project_files(TRUE, data).files,
                create_project_folder_structure(
                    drive_folders, data["project_code"], data["client"], data["group"],
                    env.drive_steps),
                env.upload_steps)

(***************************************************************************)
(* Wizard step 4 (show_step4_review_create), button "create project".      *)
(***************************************************************************)
EmptyPayload ==
    [keys |-> {}, budget_total |-> None, payment_stages |-> <<>>,
     deliverables |-> <<>>, methodologies |-> <<>>]

\* The Project(...) of the wizard.
NewProject(id, data, extracted) ==
    [id |-> id,
     project_code |-> data["project_code"],
     name |-> data["name"],
     client |-> data["client"],
     prepayment_date |-> data["start_date"],
     start_date |-> data["start_date"],
     end_date |-> data["end_date"],
     status |-> "draft",
     group |-> data["group"],
     project_type |-> data["project_type"],
     budget_total |-> IF "budget" \in extracted.keys THEN extracted.budget_total ELSE None,
     google_drive_folder_id |-> None,
     obsidian_path |-> None,
     created_by |-> "admin"]

\* The ProjectDocument rows: the contract when its text was extracted.
NewDocuments(pid, data) ==
    IF "contract_text" \in DOMAIN data
    THEN {[id |-> NextId(documents), project_id |-> pid, type |-> "contract"]}
    ELSE {}

\* The PaymentStage rows, in payload order.
NewPaymentStages(pid, extracted) ==
    IF "payment_stages" \in extracted.keys
    THEN {[id |-> NextId(payment_stages) + k - 1,
           project_id |-> pid,
           stage_number |-> extracted.payment_stages[k].stage_number,
           amount |-> extracted.payment_stages[k].amount,
           is_from_contract |-> TRUE] : k \in DOMAIN extracted.payment_stages}
    ELSE {}

\* A row whose NOT NULL column amount is None makes the flush that sends it
\* fail with an IntegrityError.
HasNullAmount(extracted) ==
    /\ "payment_stages" \in extracted.keys
    /\ \E k \in DOMAIN extracted.payment_stages : extracted.payment_stages[k].amount = None

PayloadDeliverables(extracted) ==
    IF "deliverables" \in extracted.keys THEN extracted.deliverables ELSE <<>>

\* created_deliverables[i][1].id : deliverable i (0-based) of this project.
DeliverableId(i) == NextId(deliverables) + i

\* The Deliverable rows inserted last payload item first.
NewDeliverables_reversed(pid, extracted, planning) ==
    LET delivs == PayloadDeliverables(extracted)
    IN  {[id |-> DeliverableId(Len(delivs) - 1 - i),
          project_id |-> pid,
          title |-> delivs[i + 1].title,
          suggested_methodologies |-> delivs[i + 1].suggested_methodologies,
          selected_methodologies |->
              IF i \in DOMAIN planning THEN planning[i].methodologies ELSE {},
          is_from_contract |-> TRUE] : i \in 0..(Len(delivs) - 1)}

\* The Deliverable rows with the methodologies selected in step 3.
NewDeliverables(pid, extracted, planning) ==
    LET delivs == PayloadDeliverables(extracted)
    IN  {[id |-> DeliverableId(i),
          project_id |-> pid,
          title |-> delivs[i + 1].title,
          suggested_methodologies |-> delivs[i + 1].suggested_methodologies,
          selected_methodologies |->
              IF i \in DOMAIN planning THEN planning[i].methodologies ELSE {},
          is_from_contract |-> TRUE] : i \in 0..(Len(delivs) - 1)}

\* The option number of the selectbox taken for a deliverable id.
PredecessorId_index(predecessor_idx) == predecessor_idx

\* created_deliverables[predecessor_idx - 1][1].id
PredecessorId(predecessor_idx) == DeliverableId(predecessor_idx - 1)

DependencyEntries_all(extracted, planning) ==
    LET n == Len(PayloadDeliverables(extracted))
    IN  UNION {{<<i, j>> : j \in {k \in DOMAIN planning[i].dependencies :
                                      planning[i].dependencies[k].predecessor_idx - 1 < n}} :
               i \in (0..(n - 1)) \cap DOMAIN planning}

\* The <<i, j>> of the dependency entries that produce a row: entry j of
\* deliverable i with 0 <= predecessor_idx - 1 < len(created_deliverables).
DependencyEntries(extracted, planning) ==
    LET n == Len(PayloadDeliverables(extracted))
    IN  UNION {{<<i, j>> : j \in {k \in DOMAIN planning[i].dependencies :
                                      /\ planning[i].dependencies[k].predecessor_idx > 0
                                      /\ planning[i].dependencies[k].predecessor_idx - 1 < n}} :
               i \in (0..(n - 1)) \cap DOMAIN planning}

\* The TaskDependency rows, in the order of the two loops.
NewTaskDependencies(pid, extracted, planning) ==
    LET entries == DependencyEntries(extracted, planning)
        before(e) == {d \in entries : d[1] < e[1] \/ (d[1] = e[1] /\ d[2] < e[2])}
    IN  {[id |-> NextId(task_dependencies) + Cardinality(before(e)),
          project_id |-> pid,
          predecessor_id |-> PredecessorId(planning[e[1]].dependencies[e[2]].predecessor_idx),
          successor_id |-> DeliverableId(e[1]),
          dependency_type |-> planning[e[1]].dependencies[e[2]].dependency_type,
          lag_days |-> 0] : e \in entries}

\* The MethodologySelection rows: one per payload methodology whose code is
\* in the catalog.
NewMethodologySelections(pid, extracted) ==
    LET meths == IF "methodologies" \in extracted.keys THEN extracted.methodologies ELSE <<>>
        known == {k \in DOMAIN meths : meths[k] \in MethodologyCatalog}
    IN  {[id |-> NextId(methodology_selections) + Cardinality({j \in known : j < k}),
          project_id |-> pid,
          methodology |-> meths[k],
          is_selected |-> TRUE,
          is_from_contract |-> TRUE] : k \in known}

\* The SetupChecklistItem rows from the template.
NewChecklistItems(pid) ==
    {[id |-> NextId(checklist_items) + k - 1,
      project_id |-> pid,
      item_number |-> SETUP_CHECKLIST_ITEMS[k].item_number,
      title |-> SETUP_CHECKLIST_ITEMS[k].title,
      is_completed |-> FALSE,
      is_approved |-> FALSE] : k \in DOMAIN SETUP_CHECKLIST_ITEMS}

\* A column project_code without the unique index: no insert is refused.
UniqueViolation_off(rows, code) == FALSE

\* The unique index on projects.project_code: inserting a row with `code`
\* into `rows` raises an IntegrityError.
UniqueViolation(rows, code) == \E p \in rows : p.project_code = code

\* A session factory in autocommit mode: every flush is permanent.
autocommit_on == TRUE

\* sessionmaker(autocommit=False, ...): a flush sends rows inside the open
\* transaction, and only commit() makes them permanent.
autocommit == FALSE

\* The rows that outlive db.rollback() among the rows already flushed.
AfterRollback(flushed) == IF autocommit THEN flushed ELSE {}

\* One press of "create project".  env is what the collaborators do during
\* this run: env.claude, env.vault, env.drive_client, env.drive_steps,
\* env.upload_steps.
CreateProject(env) ==
    /\ create_step = 4
    /\ \E gen \in {create_project_with_gdrive_sync(project_data, env.drive_client, env)} :
       LET data == project_data
           extracted == IF Truthy(extracted_data) THEN extracted_data[1] ELSE EmptyPayload
           planning == planning_data
           code == data["project_code"]
           pid == NextId(projects)
           ndeliv == Len(PayloadDeliverables(extracted))
           \* db.add(new_project); db.flush()
           flush_project_fails == UniqueViolation(projects, code)
           \* the db.flush() after the first deliverable sends the pending
           \* documents and payment stages
           flush_deliverable_fails == ndeliv > 0 /\ HasNullAmount(extracted)
           \* db.commit() sends whatever is still pending
           commit_fails == ndeliv = 0 /\ HasNullAmount(extracted)
           row == [NewProject(pid, data, extracted) EXCEPT
                      !.obsidian_path =
                          IF gen.result # None THEN gen.result[1].obsidian_path ELSE None,
                      !.google_drive_folder_id =
                          IF gen.result # None THEN gen.result[1].google_drive ELSE None]
           flushes == <<"flush_project">> \o [i \in 1..ndeliv |-> "flush_deliverable"]
           gen_events == <<"get_google_drive_client">> \o gen.events
           warnings == (IF env.drive_client THEN {} ELSE {"google_drive_unavailable"})
                       \cup (IF gen.result = None THEN {"documents_not_generated"} ELSE {})
       IN  IF flush_project_fails \/ flush_deliverable_fails
           THEN \* except: st.error, db.rollback()
                /\ create_result' =
                      [outcome |-> "error", code |-> code,
                       events |-> (IF flush_project_fails THEN <<"flush_project">>
                                   ELSE <<"flush_project", "flush_deliverable">>) \o <<"rollback">>,
                       result |-> None, warnings |-> {}]
                /\ projects' = projects \cup
                      (IF flush_project_fails THEN {}
                       ELSE AfterRollback({NewProject(pid, data, extracted)}))
                /\ UNCHANGED <<documents, payment_stages, deliverables, task_dependencies,
                               methodology_selections, checklist_items>>
                /\ UNCHANGED <<session, outside>>
           ELSE /\ Cardinality(projects) < MaxProjects
                /\ Cardinality(DriveProjectFolders(gen.folders)) <= MaxDriveProjects
                /\ drive_folders' = gen.folders
                /\ drive_files' = drive_files \cup gen.uploads
                /\ local_files' = local_files \cup gen.local
                /\ IF commit_fails
                   THEN /\ create_result' =
                              [outcome |-> "error", code |-> code,
                               events |-> flushes \o gen_events \o <<"commit", "rollback">>,
                               result |-> gen.result, warnings |-> warnings]
                        /\ projects' = projects \cup AfterRollback({row})
                        /\ UNCHANGED <<documents, payment_stages, deliverables,
                                       task_dependencies, methodology_selections,
                                       checklist_items>>
                        /\ UNCHANGED session
                   ELSE /\ projects' = projects \cup {row}
                        /\ documents' = documents \cup NewDocuments(pid, data)
                        /\ payment_stages' = payment_stages \cup NewPaymentStages(pid, extracted)
                        /\ deliverables' = deliverables \cup NewDeliverables(pid, extracted, planning)
                        /\ task_dependencies' =
                              task_dependencies \cup NewTaskDependencies(pid, extracted, planning)
                        /\ methodology_selections' =
                              methodology_selections \cup NewMethodologySelections(pid, extracted)
                        /\ checklist_items' = checklist_items \cup NewChecklistItems(pid)
                        /\ create_result' =
                              [outcome |-> "created", code |-> code,
                               events |-> flushes \o gen_events \o <<"commit">>,
                               result |-> gen.result, warnings |-> warnings]
                        \* clear session state
                        /\ create_step' = 1
                        /\ project_data' = EmptyDict
                        /\ extracted_data' = None
                        /\ UNCHANGED planning_data
    /\ UNCHANGED <<import_stats, methodologies>>

(***************************************************************************)
(* Deletion of a project.  The program has no page that deletes; what a    *)
(* delete does is fixed by the schema (ForeignKey(..., ondelete="CASCADE") *)
(* on every child table, cascade="all, delete-orphan" on five              *)
(* relationships of Project) and by the engine.                            *)
(***************************************************************************)
\* PRAGMA foreign_keys of the SQLite connections: create_engine sets up no
\* connect listener that turns it on, and SQLite then ignores ON DELETE.
foreign_keys == FALSE

\* The rows of table t that do not reference project pid.
Without(t, pid) == {r \in t : r.project_id # pid}

\* Delete of project pid.  via = "orm" is session.delete(project) and
\* commit: the unit of work deletes the rows of Project.documents,
\* methodology_selections, payment_stages and deliverables, and for a
\* deliverable with TaskDependency rows it sets their predecessor_id or
\* successor_id to NULL, which NOT NULL rejects, so the delete fails.
\* via = "sql" is a DELETE statement on the projects table.
DeleteProject(pid, via) ==
    /\ \E p \in projects : p.id = pid
    /\ Cardinality(checklist_items) <= Len(SETUP_CHECKLIST_ITEMS) * MaxProjects
    /\ LET orm == via = "orm"
           nulled == orm /\ \E d \in task_dependencies : d.project_id = pid
           cascaded(t) == IF orm \/ foreign_keys THEN Without(t, pid) ELSE t
           by_foreign_key(t) == IF foreign_keys THEN Without(t, pid) ELSE t
       IN  IF nulled
           THEN UNCHANGED store
           ELSE /\ projects' = {p \in projects : p.id # pid}
                /\ documents' = cascaded(documents)
                /\ methodology_selections' = cascaded(methodology_selections)
                /\ payment_stages' = cascaded(payment_stages)
                /\ deliverables' = cascaded(deliverables)
                /\ task_dependencies' = by_foreign_key(task_dependencies)
                /\ checklist_items' = by_foreign_key(checklist_items)
                /\ UNCHANGED methodologies
    /\ UNCHANGED <<session, outside, create_result, import_stats>>

(***************************************************************************)
(* Registry import (import_projects_from_excel).  A row of the sheet is    *)
(* [name, start_date, contract_project_end, bad_number]: a name or date    *)
(* None is a missing cell (NaN), bad_number a week or buffer cell that     *)
(* int(float(.)) rejects.                                                  *)
(***************************************************************************)
\* A string as it is, white space at its ends included.
Strip_none(s) == s

\* str(.).strip()
Strip(s) ==
    CASE s = "  "              -> ""
      [] s = " Acme Corp One " -> "Acme Corp One"
      [] OTHER                 -> s

\* pd.isna(row.get(name)) or not str(row.get(name)).strip()
EmptyRow(row) == row.name = None \/ Strip(row.name[1]) = ""

\* project_name[:10].upper()
Upper10(name) ==
    CASE name = "Acme Corp One" -> "ACME CORP "
      [] name = "Acme Corp Two" -> "ACME CORP "
      [] name = "Zeta"          -> "ZETA"
      [] OTHER                  -> name

\* f"IMPORT_{idx+1}_{project_name[:10].upper()}" for row number n = idx+1
ImportCode(n, name) ==
    CASE n = 1 /\ Upper10(name) = "ACME CORP " -> "IMPORT_1_ACME CORP "
      [] n = 2 /\ Upper10(name) = "ACME CORP " -> "IMPORT_2_ACME CORP "
      [] n = 3 /\ Upper10(name) = "ACME CORP " -> "IMPORT_3_ACME CORP "
      [] n = 4 /\ Upper10(name) = "ACME CORP " -> "IMPORT_4_ACME CORP "
      [] n = 1 /\ Upper10(name) = "ZETA" -> "IMPORT_1_ZETA"
      [] n = 2 /\ Upper10(name) = "ZETA" -> "IMPORT_2_ZETA"
      [] n = 3 /\ Upper10(name) = "ZETA" -> "IMPORT_3_ZETA"
      [] n = 4 /\ Upper10(name) = "ZETA" -> "IMPORT_4_ZETA"
      [] OTHER -> "IMPORT"

\* The Project(**project_data) of the import.
ImportedProject(id, n, row, default_group, today) ==
    LET start == IF row.start_date # None THEN row.start_date[1] ELSE today
    IN  [id |-> id,
         project_code |-> ImportCode(n, row.name),
         name |-> row.name,
         client |-> row.name,
         prepayment_date |-> start,
         start_date |-> start,
         end_date |-> IF row.contract_project_end # None
                      THEN row.contract_project_end[1] ELSE start,
         status |-> "active",
         group |-> default_group,
         project_type |-> "existing",
         budget_total |-> None,
         google_drive_folder_id |-> None,
         obsidian_path |-> None,
         created_by |-> "Excel Import"]

\* One iteration of the loop over the rows.  acc.pending are the rows
\* flushed in the session's transaction, acc.active is FALSE once a flush
\* has failed: the transaction is rolled back and every later use of the
\* session raises until rollback() is called.
ImportRow(acc, n, cells, use_db, default_group, today) ==
    LET stats == acc.stats
        \* project_name = str(row[name]).strip()
        row == [cells EXCEPT !.name = Strip(cells.name[1])]
        visible == projects \cup acc.pending
        error(kind) == [acc EXCEPT !.stats.errors = Append(@, [row |-> n, kind |-> kind])]
        project == ImportedProject(NextId(visible), n, row, default_group, today)
        counted == [stats EXCEPT !.imported = @ + 1,
                                 !.projects = Append(@, [name |-> row.name,
                                                         code |-> project.project_code])]
    IN  IF EmptyRow(cells)
        THEN [acc EXCEPT !.stats.skipped = @ + 1]
        ELSE IF use_db /\ ~acc.active
        THEN error("exception")
        ELSE IF use_db /\ \E p \in visible : p.name = row.name
        THEN [acc EXCEPT !.stats.skipped = @ + 1,
                         !.stats.errors = Append(@, [row |-> n, kind |-> "duplicate"])]
        ELSE IF row.bad_number
        THEN error("exception")
        ELSE IF ~use_db
        THEN [acc EXCEPT !.stats = counted]
        ELSE IF UniqueViolation(visible, project.project_code)
        THEN [error("exception") EXCEPT !.pending = {}, !.active = FALSE]
        ELSE [acc EXCEPT !.pending = @ \cup {project}, !.stats = counted]

RECURSIVE ImportRows(_, _, _, _, _, _)
ImportRows(acc, n, rows, use_db, default_group, today) ==
    IF n > Len(rows) THEN acc
    ELSE ImportRows(ImportRow(acc, n, rows[n], use_db, default_group, today),
                    n + 1, rows, use_db, default_group, today)

\* import_projects_from_excel(excel_path, sheet_name, db_session, default_group)
import_projects_from_excel(rows, use_db, default_group, today) ==
    /\ LET start == [pending |-> {}, active |-> TRUE,
                     stats |-> [total_rows |-> Len(rows), imported |-> 0, skipped |-> 0,
                                errors |-> <<>>, projects |-> <<>>, dry_run |-> ~use_db]]
           done == ImportRows(start, 1, rows, use_db, default_group, today)
           commits == use_db /\ done.stats.imported > 0
       IN  /\ Cardinality(projects \cup done.pending) <= MaxProjects
           /\ IF commits /\ done.active
              THEN /\ projects' = projects \cup done.pending
                   /\ import_stats' = done.stats
              ELSE IF commits
              THEN /\ UNCHANGED projects
                   /\ import_stats' =
                         [done.stats EXCEPT
                             !.errors = Append(@, [row |-> 0, kind |-> "commit"]),
                             !.imported = 0]
              ELSE /\ UNCHANGED projects
                   /\ import_stats' = done.stats
    /\ UNCHANGED <<documents, payment_stages, deliverables, task_dependencies,
                   methodology_selections, checklist_items, methodologies>>
    /\ UNCHANGED <<session, outside, create_result>>

(***************************************************************************)
(* Inputs.  A specification draws the inputs of the handlers from a record *)
(* of finite sets.                                                         *)
(***************************************************************************)
AllKeys == {"budget", "payment_stages", "deliverables", "methodologies"}

DeliverableTitles == <<"Market analysis", "Strategy report", "Roadmap">>

\* A payload with the given keys, one payment stage of the given amount
\* (None for JSON null), n deliverables and the given methodology codes.
Payload(keys, amount, n, meths) ==
    [keys |-> keys,
     budget_total |-> Some(1000000),
     payment_stages |-> <<[stage_number |-> 1, amount |-> amount]>>,
     deliverables |-> [i \in 1..n |-> [title |-> DeliverableTitles[i],
                                       suggested_methodologies |-> <<>>]],
     methodologies |-> meths]

AllEnvs ==
    [claude : {"ok", "adminscale", "pert"},
     vault : BOOLEAN,
     drive_client : BOOLEAN,
     drive_steps : {0, 3, NumStructureSteps},
     upload_steps : {0, 4}]

Row(name) ==
    [name |-> Some(name), start_date |-> Some(1), contract_project_end |-> None,
     bad_number |-> FALSE]

\* The whole application: wizard and registry import.
MainInputs ==
    [codes |-> {"2168.ACM.acme", "2169.Zet.zeta"},
     names |-> {"Strategy"},
     clients |-> {"Acme"},
     dates |-> {1},
     groups |-> {"right"},
     types |-> {"new"},
     texts |-> {"contract"},
     payloads |-> {Payload(AllKeys, Some(500), 1, <<<<"BPM", 2>>>>)},
     delivs |-> {0},
     preds |-> 0..1,
     dep_types |-> {"FS"},
     labels |-> {{}},
     envs |-> {e \in AllEnvs : e.claude = "ok" /\ e.vault /\ ~e.drive_client
                               /\ e.drive_steps = 0 /\ e.upload_steps = 0},
     batches |-> {<<Row("Acme Corp One")>>, <<Row("Acme Corp Two")>>,
                  <<Row(""), Row("Acme Corp One")>>},
     use_db |-> BOOLEAN,
     today |-> {1}]

\* The wizard with every collaborator outcome and payloads the store rejects.
TxnInputs ==
    [MainInputs EXCEPT
        !.codes = {"2168.ACM.acme"},
        !.payloads = {Payload(AllKeys, a, n, <<<<"BPM", 2>>, <<"BPV", 1>>>>) :
                         a \in {None, Some(500)}, n \in {0, 2}},
        !.delivs = {1},
        !.preds = 0..1,
        !.dep_types = {"FS"},
        !.labels = {{<<"BPM", 1>>}},
        !.envs = AllEnvs]

\* The wizard with every collaborator outcome and payloads the store accepts.
SyncInputs ==
    [TxnInputs EXCEPT
        !.payloads = {Payload(AllKeys, Some(500), n, <<<<"BPM", 2>>, <<"BPV", 1>>>>) :
                         n \in {0, 2}}]

\* A row whose name cell is missing.
NoName == [Row("") EXCEPT !.name = None]

\* A row with a week count that is not a number.
BadRow(name) == [Row(name) EXCEPT !.bad_number = TRUE]

\* A row whose contract end date of the project is before its start date.
EndsBeforeStart(name) ==
    [Row(name) EXCEPT !.start_date = Some(2), !.contract_project_end = Some(1)]

\* The registry import alone, with sheets of blank names, repeated names,
\* rows that fail, and codes that repeat over two imports.
ImportInputs ==
    [MainInputs EXCEPT
        !.batches = {<<Row("Acme Corp One")>>,
                     <<Row("Zeta")>>,
                     <<NoName, Row("Acme Corp One")>>,
                     <<Row("  "), Row("Zeta"), Row("")>>,
                     <<Row("Acme Corp One"), Row("Acme Corp One")>>,
                     <<Row(" Acme Corp One "), Row("Acme Corp One")>>,
                     <<Row("Zeta"), BadRow("Acme Corp One"), Row("Acme Corp Two")>>,
                     <<Row("Acme Corp Two"), Row("Zeta")>>,
                     <<Row("Zeta"), Row("Acme Corp Two")>>,
                     <<EndsBeforeStart("Zeta")>>},
        !.today = {1, 2}]

\* The wizard with payloads of zero or two payment stages and deliverables.
OrderInputs ==
    [MainInputs EXCEPT
        !.codes = {"2168.ACM.acme"},
        !.payloads = {[Payload(AllKeys, Some(500), n, <<<<"BPM", 2>>>>) EXCEPT
                          !.payment_stages = stages] :
                         n \in {0, 2},
                         stages \in {<<>>, <<[stage_number |-> 1, amount |-> Some(500)],
                                             [stage_number |-> 2, amount |-> Some(700)]>>}},
        !.delivs = {1}]

\* The wizard with payloads the store rejects and a failing generator, the
\* remote store left out.
AtomicInputs ==
    [TxnInputs EXCEPT
        !.envs = {e \in AllEnvs : ~e.drive_client /\ e.drive_steps = 0 /\ e.upload_steps = 0}]

\* The wizard with every choice of predecessors in step 3.
PlanInputs ==
    [MainInputs EXCEPT
        !.payloads = {Payload(AllKeys, Some(500), 2, <<>>)},
        !.delivs = {0, 1},
        !.preds = 0..2,
        !.dep_types = {"FS"},
        !.labels = {{}},
        !.envs = {e \in AllEnvs : e.claude = "ok" /\ e.vault /\ ~e.drive_client
                                  /\ e.drive_steps = 0 /\ e.upload_steps = 0}]

\* Two projects, dependencies on the second deliverable of each.
TwoInputs ==
    [PlanInputs EXCEPT !.delivs = {1}, !.labels = {{}, {<<"BPM", 1>>}}]

WizardNext(I) ==
    \/ \E c \in I.clients, ok \in BOOLEAN, code \in I.codes :
          GenerateProjectCode(c, ok, code)
    \/ \E pn \in I.names, c \in I.clients, sd \in I.dates, ed \in I.dates,
          g \in I.groups, pt \in I.types : Step1Next(pn, c, sd, ed, g, pt)
    \/ \E t \in I.texts, ok \in BOOLEAN, payload \in I.payloads :
          ExtractContractData(t, ok, payload)
    \/ Step2Back
    \/ Step2Next
    \/ \E i \in I.delivs : AddDependency(i)
    \/ \E i \in I.delivs, j \in 1..MaxDependencies, p \in I.preds :
          SelectPredecessor(i, j, p)
    \/ \E i \in I.delivs, j \in 1..MaxDependencies, t \in I.dep_types :
          SelectDependencyType(i, j, t)
    \/ \E i \in I.delivs, j \in 1..MaxDependencies : DeleteDependency(i, j)
    \/ \E i \in I.delivs, labels \in I.labels : SelectMethodologies(i, labels)
    \/ Step3Back
    \/ Step3Next
    \/ Step4Back
    \/ \E env \in I.envs : CreateProject(env)

ImportNext(I) ==
    \E rows \in I.batches, use_db \in I.use_db, g \in I.groups, today \in I.today :
        import_projects_from_excel(rows, use_db, g, today)

Next == WizardNext(MainInputs) \/ ImportNext(MainInputs)

Spec == Init /\ [][Next]_vars

NextTxn == WizardNext(TxnInputs)

SpecTxn == Init /\ [][NextTxn]_vars

NextSync == WizardNext(SyncInputs)

SpecSync == Init /\ [][NextSync]_vars

\* The wizard for one project code, and deletes.
DeleteInputs == [TwoInputs EXCEPT !.codes = {"2168.ACM.acme"}, !.labels = {{}}]

NextDelete ==
    \/ WizardNext(DeleteInputs)
    \/ \E pid \in 1..MaxProjects, via \in {"orm", "sql"} : DeleteProject(pid, via)

SpecDelete == Init /\ [][NextDelete]_vars

\* Calls of the remote store's client.
DriveInputs ==
    [folder_names |-> {<<"Archive">>},
     parents |-> 0..1,
     codes |-> {"2169.Zet.zeta", "2170acme"},
     clients |-> {"Acme"},
     groups |-> {"right", "left"},
     steps |-> {5, NumStructureSteps}]

NextDrive ==
    \/ \E folder_name \in DriveInputs.folder_names, parent_id \in DriveInputs.parents :
          GetOrCreateFolder(folder_name, parent_id)
    \/ \E project_code \in DriveInputs.codes, project_name \in DriveInputs.clients,
          group \in DriveInputs.groups, steps \in DriveInputs.steps :
          CreateProjectFolderStructure(project_code, project_name, group, steps)

SpecDrive == Init /\ [][NextDrive]_vars

\* The start of the application on a new database, and registry imports.
NextSeed == import_methodologies \/ ImportNext(ImportInputs)

SpecSeed == InitSeed /\ [][NextSeed]_vars

NextImport == ImportNext(ImportInputs)

SpecImport == Init /\ [][NextImport]_vars

NextOrder == WizardNext(OrderInputs)

SpecOrder == Init /\ [][NextOrder]_vars

NextAtomic == WizardNext(AtomicInputs)

SpecAtomic == Init /\ [][NextAtomic]_vars

NextPlan == WizardNext(PlanInputs)

SpecPlan == Init /\ [][NextPlan]_vars

NextTwo == WizardNext(TwoInputs)

SpecTwo == Init /\ [][NextTwo]_vars

\* Two projects, dependencies on the second deliverable of each, the
\* methodologies left as preselected.
DepsInputs == [TwoInputs EXCEPT !.labels = {{}}]

NextDeps == WizardNext(DepsInputs)

SpecDeps == Init /\ [][NextDeps]_vars

\* The wizard with forms that step 1 rejects: a missing name or client, an
\* end date before the start date.
FormInputs ==
    [MainInputs EXCEPT
        !.codes = {"2168.ACM.acme"},
        !.names = {"", "Strategy"},
        !.clients = {"", "Acme"},
        !.dates = {1, 2}]

NextForm == WizardNext(FormInputs)

SpecForm == Init /\ [][NextForm]_vars

(***************************************************************************)
(* Properties.                                                             *)
(***************************************************************************)
\* The rows of table t that reference project pid.
RowsOf(t, pid) == {r \in t : r.project_id = pid}

\* C1: one press of "create project" either adds the new Project together
\* with all its related rows (the contract document, one payment stage per
\* payload stage, one deliverable per payload deliverable, one dependency per
\* planning entry with a predecessor in range, one selection per payload
\* methodology of the catalog, the ten checklist items) or leaves every table
\* of the store as it was.
C1_AllOrNothing ==
    [][\/ store' = store
       \/ /\ create_step = 4
          /\ \E p \in projects' \ projects :
                LET payload == extracted_data[1]
                    n == Len(payload.deliverables)
                    entries == {e \in (0..(n - 1)) \X (1..MaxDependencies) :
                                   /\ e[1] \in DOMAIN planning_data
                                   /\ e[2] \in DOMAIN planning_data[e[1]].dependencies
                                   /\ planning_data[e[1]].dependencies[e[2]].predecessor_idx \in 1..n}
                    known == {k \in DOMAIN payload.methodologies :
                                 payload.methodologies[k] \in MethodologyCatalog}
                    added(t, u, count) ==
                        /\ t \subseteq u
                        /\ u \ t = RowsOf(u, p.id)
                        /\ Cardinality(u \ t) = count
                IN  /\ projects' = projects \cup {p}
                    /\ p.project_code = project_data["project_code"]
                    /\ added(documents, documents',
                             IF "contract_text" \in DOMAIN project_data THEN 1 ELSE 0)
                    /\ added(payment_stages, payment_stages', Len(payload.payment_stages))
                    /\ added(deliverables, deliverables', n)
                    /\ added(task_dependencies, task_dependencies', Cardinality(entries))
                    /\ added(methodology_selections, methodology_selections',
                             Cardinality(known))
                    /\ added(checklist_items, checklist_items', 10)]_vars

\* C1 witness: a run that was rolled back after the project row and the
\* first deliverable had been flushed, and nothing of it is in the store.
C1_Witness ==
    /\ create_result.outcome = "error"
    /\ create_result.events = <<"flush_project", "flush_deliverable", "rollback">>
    /\ \A p \in projects : p.project_code # create_result.code
    /\ projects = {} /\ deliverables = {} /\ payment_stages = {}

\* The calls of a creation run that generate documents, write local files
\* or reach the remote store.
GenerationEvents ==
    {"generate_adminscale", "generate_pert", "create_project_structure",
     "save_project_files", "save_temp_files",
     "create_project_folder_structure", "upload_project_files"}

\* C2: in every creation run the commit precedes the first generation or
\* Drive call, and every vault file and every Drive project folder belongs to
\* a project whose rows are committed.
C2_GenerationAfterCommit ==
    LET events == create_result.events
    IN  /\ \A i \in DOMAIN events :
              events[i] \in GenerationEvents
                  => \E j \in 1..(i - 1) : events[j] = "commit"
        /\ \A f \in local_files :
              f.root = "vault" => \E p \in projects : Lower(p.project_code) = f.folder
        /\ \A f \in DriveProjectFolders(drive_folders) :
              \E p \in projects : Upper(p.project_code) = f.name[1]

\* C4: when the remote mirroring of a creation run fails (the folder
\* structure or an upload raises, or the Drive client is unavailable), the
\* project is committed with its code, its Drive folder id is unset and the
\* result carries google_drive_error.
C4_MirrorFailureRecorded ==
    LET r == create_result
        mirror_failed ==
            /\ r.result # None
            /\ \/ "google_drive_unavailable" \in r.warnings
               \/ r.result[1].google_drive_error
    IN  mirror_failed =>
            /\ r.outcome = "created"
            /\ \E p \in projects : /\ p.project_code = r.code
                                    /\ p.google_drive_folder_id = None
            /\ r.result[1].google_drive_error

\* C5: when the vault root is unavailable the generator writes adminscale,
\* PERT and README to a temporary directory, returns a result with these
\* files, and the remote mirroring is attempted when a Drive client is there.
C5_TempFallback ==
    LET r == create_result
        fallback == "save_temp_files" \in Range(r.events)
        needed == {"adminscale", "pert", "readme"}
    IN  fallback =>
            /\ r.result # None
            /\ needed \subseteq r.result[1].files
            /\ \A k \in needed : \E f \in local_files : f.root = "temp" /\ f.kind = k
            /\ "google_drive_unavailable" \notin r.warnings
                   => "create_project_folder_structure" \in Range(r.events)

\* C6: when generate_adminscale or generate_pert raises during a creation
\* run, the user is warned and the project is committed with all its related
\* rows, obsidian_path and the Drive folder id unset.
C6_GenerationFailureKeepsProject ==
    LET r == create_result
        generation_failed ==
            /\ "generate_adminscale" \in Range(r.events)
            /\ "create_project_structure" \notin Range(r.events)
    IN  generation_failed =>
            /\ "documents_not_generated" \in r.warnings
            /\ r.outcome = "created"
            /\ \E p \in projects :
                  /\ p.project_code = r.code
                  /\ p.obsidian_path = None
                  /\ p.google_drive_folder_id = None
                  /\ Cardinality(RowsOf(checklist_items, p.id)) = 10
                  /\ RowsOf(documents, p.id) # {}

\* C3: project_code is unique across the store, and a creation attempt with
\* a code already present, by the wizard or by the import, is rejected and
\* leaves exactly one Project with that code.
C3_UniqueCode ==
    /\ \A p, q \in projects : p.project_code = q.project_code => p = q
    /\ create_result.events = <<"flush_project", "rollback">>
          => Cardinality({p \in projects : p.project_code = create_result.code}) = 1
    /\ \A k \in DOMAIN import_stats.projects :
          ~import_stats.dry_run
              => Cardinality({p \in projects :
                                 p.project_code = import_stats.projects[k].code}) <= 1

\* C3 witness: the wizard's last run was rejected at the flush of the project
\* row, and the last import was rejected for a code already in the store.
C3_Witness ==
    /\ create_result.events = <<"flush_project", "rollback">>
    /\ Cardinality({p \in projects : p.project_code = create_result.code}) = 1
    /\ ~import_stats.dry_run
    /\ \E k \in DOMAIN import_stats.errors : import_stats.errors[k].kind = "exception"
    /\ \E p \in projects : p.project_code = "IMPORT_1_ACME CORP "

\* The pairs <<predecessor, successor>> of the dependencies of project pid.
Edges(pid) ==
    {<<d.predecessor_id, d.successor_id>> : d \in RowsOf(task_dependencies, pid)}

\* The nodes reachable from the set S along the edges E in 1..k steps.
RECURSIVE ReachableIn(_, _, _)
ReachableIn(E, S, k) ==
    IF k = 0 THEN {}
    ELSE LET next == {e[2] : e \in {x \in E : x[1] \in S}}
         IN  next \cup ReachableIn(E, next, k - 1)

\* C7: no TaskDependency row has predecessor_id equal to successor_id.
C7_NoSelfDependency ==
    \A d \in task_dependencies : d.predecessor_id # d.successor_id

\* C8: the dependency graph of every project is acyclic: no deliverable is
\* reachable from itself along the project's dependencies.
C8_Acyclic ==
    \A p \in projects :
        \A d \in RowsOf(deliverables, p.id) :
            d.id \notin ReachableIn(Edges(p.id), {d.id},
                                    Cardinality(RowsOf(deliverables, p.id)))

\* C9: the predecessor and the successor of every TaskDependency are
\* deliverables of the dependency's own project.
C9_SameProject ==
    \A d \in task_dependencies :
        /\ \E x \in deliverables : x.id = d.predecessor_id
        /\ \E x \in deliverables : x.id = d.successor_id
        /\ \A x \in deliverables :
              x.id \in {d.predecessor_id, d.successor_id} => x.project_id = d.project_id

\* C9 witness: two projects with deliverables, and the second one has a
\* dependency between two of its deliverables.
C9_Witness ==
    /\ Cardinality(projects) = 2
    /\ \E d \in task_dependencies :
          /\ d.project_id = MaxOf({p.id : p \in projects})
          /\ d.predecessor_id # d.successor_id
    /\ \E d \in task_dependencies : d.project_id # MaxOf({p.id : p \in projects})

IsKth(r, rows, k) == r \in rows /\ Cardinality({q \in rows : q.id < r.id}) = k - 1

\* C11: a successful creation from a payload with N deliverables and M
\* payment stages gives the project exactly N Deliverable rows and M
\* PaymentStage rows, in payload order, each with is_from_contract, and the
\* payload's budget total as budget_total.
C11_PayloadFanOut ==
    [][\A p \in projects' \ projects :
          LET payload == extracted_data[1]
              stages == RowsOf(payment_stages', p.id)
              delivs == RowsOf(deliverables', p.id)
          IN  /\ Cardinality(stages) = Len(payload.payment_stages)
              /\ Cardinality(delivs) = Len(payload.deliverables)
              /\ \A k \in DOMAIN payload.payment_stages :
                    \E r \in stages :
                        /\ IsKth(r, stages, k)
                        /\ r.stage_number = payload.payment_stages[k].stage_number
                        /\ r.amount = payload.payment_stages[k].amount
                        /\ r.is_from_contract
              /\ \A k \in DOMAIN payload.deliverables :
                    \E r \in delivs :
                        /\ IsKth(r, delivs, k)
                        /\ r.title = payload.deliverables[k].title
                        /\ r.is_from_contract
              /\ p.budget_total = payload.budget_total]_vars

\* C11 witness: a created project with two deliverables and two stages.
C11_Witness ==
    \E p \in projects :
        /\ create_result.outcome = "created"
        /\ p.project_code = create_result.code
        /\ Cardinality(RowsOf(deliverables, p.id)) = 2
        /\ Cardinality(RowsOf(payment_stages, p.id)) = 2

\* C12: extraction is optional: after "skip" in step 2 (step 3 with no
\* extracted data) the wizard can go on to step 4.
C12_SkipReachesStep4 ==
    (create_step = 3 /\ ~Truthy(extracted_data)) => ENABLED Step3Next

\* The code entered in step 1 is already the code of a stored project.
DuplicateCode ==
    /\ "project_code" \in DOMAIN project_data
    /\ \E p \in projects : p.project_code = project_data["project_code"]

\* C13: pressing "create" in step 4 with a duplicate project code persists
\* nothing, shows the error, and leaves create_step, project_data and
\* extracted_data as they were, so that the user can go back for a new code.
C13_DuplicateCodeRetryable ==
    [][\A env \in TwoInputs.envs :
          (DuplicateCode /\ CreateProject(env)) =>
          /\ store' = store
          /\ outside' = outside
          /\ create_result'.outcome = "error"
          /\ create_step' = create_step
          /\ project_data' = project_data
          /\ extracted_data' = extracted_data]_vars

\* C13 witness: the error of a duplicate code is shown in step 4, from where
\* the "back" button leads to a new code.
C13_Witness ==
    /\ create_step = 4
    /\ DuplicateCode
    /\ create_result.outcome = "error"
    /\ create_result.code = project_data["project_code"]
    /\ create_result.events = <<"flush_project", "rollback">>
    /\ ENABLED Step4Back

\* A name cell that is missing, empty or made of white space.
BlankName(cell) == cell \in {None, Some(""), Some("  ")}

\* The rows of a sheet with such a name.
BlankRows(rows) == {n \in DOMAIN rows : BlankName(rows[n].name)}

\* The step is an import of the sheet rows.
IsImport(rows) ==
    \E use_db \in ImportInputs.use_db, g \in ImportInputs.groups,
       today \in ImportInputs.today :
        import_projects_from_excel(rows, use_db, g, today)

\* C14: an import row with an empty, blank or missing name is counted in
\* skipped, creates no Project and leaves no entry in the error list.
C14_BlankNameSkipped ==
    [][\A rows \in ImportInputs.batches :
          IsImport(rows) =>
          LET stats == import_stats'
              duplicates == {k \in DOMAIN stats.errors : stats.errors[k].kind = "duplicate"}
          IN  /\ stats.skipped = Cardinality(BlankRows(rows)) + Cardinality(duplicates)
              /\ \A k \in DOMAIN stats.errors : stats.errors[k].row \notin BlankRows(rows)
              /\ stats.imported + Cardinality(BlankRows(rows)) <= Len(rows)
              /\ \A q \in DOMAIN stats.projects : ~BlankName(Some(stats.projects[q].name))
              /\ \A p \in projects' \ projects : ~BlankName(Some(p.name))]_vars

\* C14 witness: a sheet with a blank row has been imported into the store.
C14_Witness ==
    /\ import_stats.total_rows = 3
    /\ import_stats.skipped = 2
    /\ import_stats.imported = 1
    /\ ~import_stats.dry_run
    /\ \E p \in projects : p.name = "Zeta"

\* Rows first < second of a sheet carry the same client name, which no
\* earlier row and no stored project has.
SameNameRows(rows, first, second) ==
    /\ first < second
    /\ ~BlankName(rows[first].name)
    /\ rows[second].name = rows[first].name
    /\ \A n \in DOMAIN rows : n < first => rows[n].name # rows[first].name
    /\ \A p \in projects : Some(p.name) # rows[first].name

\* C15: of two rows of one sheet with the same client name the first is
\* imported and the second is skipped and recorded as a duplicate, with a
\* database session and in dry-run alike.
C15_SecondOfSameNameSkipped ==
    [][\A rows \in ImportInputs.batches :
          IsImport(rows) =>
          \A first, second \in DOMAIN rows :
              SameNameRows(rows, first, second) =>
              LET stats == import_stats'
              IN  /\ \E k \in DOMAIN stats.errors :
                        stats.errors[k] = [row |-> second, kind |-> "duplicate"]
                  /\ Cardinality({q \in DOMAIN stats.projects :
                          Some(stats.projects[q].name) = rows[first].name}) = 1]_vars

\* The client name of row n of a sheet, without the white space around it.
NameOf(rows, n) == Strip(rows[n].name[1])

\* Row n of a sheet can be imported into the store as it is: it has a name
\* that no stored project and no earlier row has, numbers that parse, and
\* a code that no stored project has.
ValidRow(rows, n) ==
    /\ ~BlankName(rows[n].name)
    /\ ~rows[n].bad_number
    /\ \A p \in projects :
          /\ p.name # NameOf(rows, n)
          /\ p.project_code # ImportCode(n, NameOf(rows, n))
    /\ \A m \in 1..(n - 1) : ~BlankName(rows[m].name) => NameOf(rows, m) # NameOf(rows, n)

\* C16: a failing row of an import with a session is recorded for that row
\* only and does not abort the batch: every valid row before or after it is
\* imported and committed, and has no entry in the error list.
C16_FailingRowIsolated ==
    [][\A rows \in ImportInputs.batches :
          (IsImport(rows) /\ ~import_stats'.dry_run) =>
          \A n \in DOMAIN rows :
              ValidRow(rows, n) =>
              /\ \E p \in projects' \ projects :
                    /\ p.name = NameOf(rows, n)
                    /\ p.project_code = ImportCode(n, NameOf(rows, n))
              /\ \A k \in DOMAIN import_stats'.errors : import_stats'.errors[k].row # n]_vars

\* The catalog ms has 36 rows, 11 of category BPM and 25 of category BPA,
\* with distinct codes.
SeededCatalog(ms) ==
    /\ Cardinality(ms) = 36
    /\ Cardinality({m \in ms : m.category = "BPM"}) = 11
    /\ Cardinality({m \in ms : m.category = "BPA"}) = 25
    /\ \A a, b \in ms : a.code = b.code => a = b

\* C17: after a call of import_methodologies the catalog holds exactly 36
\* rows (11 BPM and 25 BPA) with distinct codes, and a call on a catalog
\* that has rows changes nothing.
C17_SeededOnce ==
    [][import_methodologies =>
          /\ SeededCatalog(methodologies')
          /\ methodologies # {} => methodologies' = methodologies]_vars

\* C17 witness: the catalog has been imported into a new database.
C17_Witness ==
    /\ SeededCatalog(methodologies)
    /\ ENABLED import_methodologies

\* The folders of the remote store with that name under that parent.
FoldersNamed(folders, folder_name, parent_id) ==
    {f \in folders : f.name = folder_name /\ f.parent = parent_id}

\* C18: after a call of get_or_create_folder a second call with the same
\* name and parent returns the same folder id and creates nothing, and the
\* store holds at most one folder of that name under that parent.
C18_GetOrCreateIdempotent ==
    [][\A folder_name \in DriveInputs.folder_names, parent_id \in DriveInputs.parents :
          GetOrCreateFolder(folder_name, parent_id) =>
          LET first == get_or_create_folder(drive_folders, folder_name, parent_id)
              second == get_or_create_folder(drive_folders', folder_name, parent_id)
          IN  /\ second[1] = first[1]
              /\ second[2] = drive_folders'
              /\ Cardinality(FoldersNamed(drive_folders', folder_name, parent_id)) <= 1]_vars

\* C18 witness: a folder made by get_or_create_folder under another folder,
\* with the call enabled again.
C18_Witness ==
    /\ Cardinality(FoldersNamed(drive_folders, <<"Archive">>, 1)) = 1
    /\ ENABLED GetOrCreateFolder(<<"Archive">>, 1)

\* The names of the five subfolders of a project with that ticker.
FiveSubfolders(ticker) ==
    {<<ticker, ".01-inbox">>, <<ticker, ".02-research">>, <<ticker, ".03-meetings">>,
     <<ticker, ".04-project-docs">>, <<ticker, ".05-deliverables">>}

\* The second dot-separated part of the code, "XXX" for a code without dot.
SecondPart(code) == IF Len(SplitDot(code)) >= 2 THEN SplitDot(code)[2] ELSE "XXX"

\* The call has added to the store a project folder of that name under the
\* group folder of the root folder, with exactly the five subfolders.
FixedLayout(before, after, folder_name, ticker, group) ==
    \E root, group_folder \in after :
        /\ root.name = <<"04-Engagement">>
        /\ root.parent = 0
        /\ group_folder.name =
              (IF group = "right" THEN <<"Pravaya gruppa">> ELSE <<"Levaya gruppa">>)
        /\ group_folder.parent = root.id
        /\ \E project_folder \in after \ before :
              LET subfolders == {f \in after : f.parent = project_folder.id}
              IN  /\ project_folder.name = folder_name
                  /\ project_folder.parent = group_folder.id
                  /\ Cardinality(subfolders) = 5
                  /\ {f.name : f \in subfolders} = FiveSubfolders(ticker)

C20_DeleteCascades ==
    [][\A pid \in 1..MaxProjects, via \in {"orm", "sql"} :
          (DeleteProject(pid, via) /\ ~\E p \in projects' : p.id = pid) =>
          /\ RowsOf(documents', pid) = {}
          /\ RowsOf(methodology_selections', pid) = {}
          /\ RowsOf(payment_stages', pid) = {}
          /\ RowsOf(deliverables', pid) = {}
          /\ RowsOf(task_dependencies', pid) = {}
          /\ RowsOf(checklist_items', pid) = {}]_vars

WellShaped(payload) ==
    /\ AllKeys \subseteq payload.keys
    /\ payload.budget_total # None
    /\ \A k \in DOMAIN payload.payment_stages : payload.payment_stages[k].amount # None

\* C22: a malformed answer of the extraction service is an extraction
\* failure: extracted_data is never set to a payload that misses a required
\* key or has a numeric field that is not a number.
C22_MalformedPayloadRejected ==
    Truthy(extracted_data) => WellShaped(extracted_data[1])

\* The sequence number of a project code, 0 for a code that has none.
SequenceOf(code) ==
    CASE SplitDot(code)[1] = "2168" -> 2168
      [] SplitDot(code)[1] = "2169" -> 2169
      [] OTHER                      -> 0

\* The highest sequence number among the codes of the store as the text
\* the collaborator is seeded with, "2167" when there is none.
HighestSequence ==
    LET highest == MaxOf({SequenceOf(p.project_code) : p \in projects} \cup {0})
    IN  CASE highest = 2168 -> "2168"
          [] highest = 2169 -> "2169"
          [] OTHER          -> "2167"

\* C23: whenever a project code can be generated, the seed handed to the
\* collaborator is the highest sequence number among the existing codes,
\* or 2167 when there is none.
C23_SeedIsHighestSequence ==
    create_step = 1 => LastCode = HighestSequence

Step1Keys ==
    {"name", "client", "start_date", "end_date", "group", "project_type", "project_code"}

\* C25: validation comes before persistence. Whenever the wizard is past
\* step 1, project_data holds name, client, start_date, end_date, group,
\* project_type and project_code, the name and the client are set and the end
\* date is not before the start date; and no step of the wizard taken before
\* step 4 writes to the database.
C25_ValidatedBeforePersistence ==
    /\ [](create_step >= 2 =>
             /\ Step1Keys \subseteq DOMAIN project_data
             /\ project_data["name"] # ""
             /\ project_data["client"] # ""
             /\ project_data["end_date"] >= project_data["start_date"])
    /\ [][create_step < 4 => store' = store]_vars

\* The wizard has left step 1 with an end date after the start date.
C25_Witness ==
    /\ create_step >= 2
    /\ Step1Keys \subseteq DOMAIN project_data
    /\ project_data["end_date"] > project_data["start_date"]

\* C26: a press of "create project" that persists the project resets the
\* whole wizard: create_step is 1, project_data is empty, extracted_data is
\* None and planning_data is empty.
C26_WizardFullyReset ==
    [][\A env \in TwoInputs.envs :
          (CreateProject(env) /\ projects' # projects) =>
              /\ create_step' = 1
              /\ project_data' = EmptyDict
              /\ extracted_data' = None
              /\ planning_data' = EmptyDict]_vars

\* C27: a failure of the collaborator leaves accepted input alone. When the
\* generation of the project code fails at step 1, or the extraction of the
\* contract data fails at step 2, create_step, project_data (with a project
\* code generated before) and extracted_data are unchanged.
C27_FailureKeepsInput ==
    [][/\ \A c \in FormInputs.clients, code \in FormInputs.codes :
             GenerateProjectCode(c, FALSE, code) =>
                 UNCHANGED <<create_step, project_data, extracted_data>>
       /\ \A t \in FormInputs.texts, payload \in FormInputs.payloads :
             ExtractContractData(t, FALSE, payload) =>
                 UNCHANGED <<create_step, project_data, extracted_data>>]_vars

\* Step 2 with a generated code and extracted data, where an extraction that
\* fails can be started.
C27_Witness ==
    /\ create_step = 2
    /\ "project_code" \in DOMAIN project_data
    /\ extracted_data # None
    /\ \E t \in FormInputs.texts, payload \in FormInputs.payloads :
          ENABLED ExtractContractData(t, FALSE, payload)

\* The number of entries of errors that a failing row left.
RowErrors(stats) ==
    Cardinality({k \in DOMAIN stats.errors : stats.errors[k].kind = "exception"})

ProjectFoldersNamed(folders, folder_name, group) ==
    {f \in folders :
        /\ f.name = folder_name
        /\ \E group_folder \in folders :
              /\ group_folder.id = f.parent
              /\ group_folder.name =
                    (IF group = "right" THEN <<"Pravaya gruppa">> ELSE <<"Levaya gruppa">>)}

\* C29: after every complete call of create_project_folder_structure the
\* store holds exactly one project folder of the project's name under the
\* group folder, with exactly one of each of the five subfolders, however
\* many calls for that code, client and group came before.
C29_StructureIdempotent ==
    [][\A project_code \in DriveInputs.codes, project_name \in DriveInputs.clients,
          group \in DriveInputs.groups :
          CreateProjectFolderStructure(project_code, project_name, group, NumStructureSteps) =>
          LET named == ProjectFoldersNamed(drive_folders',
                           <<Upper(project_code), " ", project_name>>, group)
          IN  /\ Cardinality(named) = 1
              /\ \A project_folder \in named :
                    \A sub \in FiveSubfolders(SecondPart(project_code)) :
                        Cardinality(FoldersNamed(drive_folders', sub, project_folder.id)) = 1]_vars

\* The i-th (0-based) row of `rows` in the order of creation, the order of ids.
IthCreated(rows, i) ==
    CHOOSE d \in rows : Cardinality({x \in rows : x.id < d.id}) = i

\* The entries <<i, j>> of planning whose predecessor_idx is one of 1..n.
EntriesInRange(planning, n) ==
    {e \in (0..(n - 1)) \X (1..(MaxDependencies + 1)) :
        /\ e[1] \in DOMAIN planning
        /\ e[2] \in DOMAIN planning[e[1]].dependencies
        /\ planning[e[1]].dependencies[e[2]].predecessor_idx \in 1..n}

====
